---- MODULE Spec2Model ----
(***************************************************************************)
(* Model of the Electron main process of the journaling application        *)
(* (src/electron/main.js): the supervisor of the Python worker, the        *)
(* line-delimited JSON protocol on the worker's stdin/stdout, the          *)
(* pending-request map keyed by an incrementing request id, the per-request *)
(* timeout timers and the startup sequence.                                 *)
(*                                                                         *)
(* Time advances from one timer expiry to the next.  Every armed timer      *)
(* carries the milliseconds left until it expires and every pending request *)
(* the milliseconds since it was sent.  A timer callback runs at the moment *)
(* its delay expires: time does not advance past an expired timer, but any  *)
(* other event may be handled at that moment before the callback.           *)
(*                                                                         *)
(* The worker (backend/electron_bridge.py) is not part of the sources; it   *)
(* is modelled from the protocol description as a process that reads        *)
(* request lines in order and may write any line.  A line is delivered to   *)
(* the supervisor in the step in which the worker writes it.                *)
(*                                                                         *)
(* The renderer (src/frontend/src/App.jsx) is the React state of App with   *)
(* one action per event handler, an async handler being split at its await, *)
(* and the pure rendering of PatternTimeline.  Spec is the main process     *)
(* under any renderer and any worker output, LiveSpec adds the running of   *)
(* the timers, SpecGui is App driving the main process, SpecForm the        *)
(* writing form with all its inputs, SpecView the rendering of              *)
(* PatternTimeline over its inputs, LiveSpecGui is SpecGui with the timers  *)
(* running and the awaits resumed.  SpecSearch is the similarity scan of    *)
(* the worker over stored embeddings, modelled from its description.        *)
(***************************************************************************)
EXTENDS Integers, Sequences, FiniteSets, TLC

\* ---------------------------------------------------------------- bounds
MaxCalls == 2      \* IPC invocations made by the renderer in one run

\* ------------------------------------------------------------- constants
CreateEntryTimeout == 30000
QueryTimeout == 5000
StartupTimeout == 10000
NoId == -1         \* stands for an `undefined` requestId

NotReadyError == "Python subprocess not ready"
CreateTimeoutError == "Python subprocess timeout"
QueryTimeoutError == "Timeout"

Channels == {"create-entry", "get-entries", "get-stats"}

Command(channel) ==
  CASE channel = "create-entry" -> "create_entry"
    [] channel = "get-entries" -> "get_entries"
    [] channel = "get-stats" -> "get_stats"

\* faulty variant: one window for every command
TimeoutMsUniform(channel) == QueryTimeout

TimeoutMs(channel) ==
  IF channel = "create-entry" THEN CreateEntryTimeout ELSE QueryTimeout

TimeoutError(channel) ==
  IF channel = "create-entry" THEN CreateTimeoutError ELSE QueryTimeoutError

\* ------------------------------------------------- worker output lines
StrayData == "stray"                     \* data of a message nobody asked for
WorkerErrors == {"boom"}

\* the result the worker computes for a request
ResultOf(request) == request.command \o "#" \o ToString(request.requestId)

Line(kind, type, requestId, data, error) ==
  [kind |-> kind, type |-> type, requestId |-> requestId,
   data |-> data, error |-> error]

TextLine == Line("text", "", NoId, "", "")       \* not JSON at all
NullLine == Line("null", "", NoId, "", "")       \* the JSON value null
ReadyLine == Line("json", "ready", NoId, "", "")
OtherLine == Line("json", "progress", NoId, "", "")
ResponseLine(r, d) == Line("json", "response", r, d, "")
ErrorLine(r, e) == Line("json", "error", r, "", e)

\* request ids a worker message may carry: none, issued ones, a never issued one
MessageIds == {NoId} \cup (0 .. MaxCalls)

Lines ==
  {TextLine, NullLine, ReadyLine, OtherLine}
    \cup {ResponseLine(r, StrayData) : r \in MessageIds}
    \cup {ErrorLine(r, e) : r \in MessageIds, e \in WorkerErrors}

VARIABLES
  started,           \* app.whenReady() callback has run
  worker,            \* "none" | "running" | "closed" (close event emitted)
  pythonReady,
  lastSignal,        \* history: last of "ready" / "close" seen by the supervisor
  pendingRequests,   \* requestId -> index in calls of the promise it settles
  requestIdCounter,
  stdin,             \* every request line written to the worker, in order
  workerPos,         \* number of request lines the worker has consumed
  store,             \* requestIds of the create_entry requests the worker stored
  timers,            \* armed request timers
  calls,             \* the promises returned by the IPC handlers
  checkReady,        \* the 100 ms ready poll is active
  startupTimer,      \* the 10 s startup fallback timer is armed
  startupLeft,       \* milliseconds until the startup fallback timer expires
  windows,           \* number of createWindow() calls
  \* --- the renderer: React state of App (src/frontend/src/App.jsx)
  content,           \* the textarea's text, a sequence of characters
  mood,
  insight,           \* NoInsight (null) or the insight string
  similar,           \* similar entries of the last analysis
  isAnalyzing,
  entries,           \* entries loaded for the timeline view
  showTimeline,
  alert,             \* the last alert() shown, "none" before the first
  awaited,           \* calls whose `await` in the renderer has not resumed
  pattern,           \* what PatternTimeline last rendered
  \* --- the worker's similarity search
  query,             \* embedding of the new entry
  stored,            \* embeddings of the stored entries
  found              \* outcome of the last scan

guiVars == <<content, mood, insight, similar, isAnalyzing, entries,
             showTimeline, alert, awaited, pattern>>

mainVars == <<started, worker, pythonReady, lastSignal, pendingRequests,
              requestIdCounter, stdin, workerPos, store, timers, calls,
              checkReady, startupTimer, startupLeft, windows>>

searchVars == <<query, stored, found>>

vars == <<mainVars, guiVars, searchVars>>

NotScanned == [done |-> FALSE]

NoInsight == "null"
InitialMood == 3

MoodButtonsFromZero == 0 .. 4

MoodButtons == 1 .. 5
NotRendered == [rendered |-> FALSE]

\* the main process before app.whenReady()
MainInit ==
  /\ started = FALSE
  /\ worker = "none"
  /\ pythonReady = FALSE
  /\ lastSignal = "none"
  /\ pendingRequests = <<>>
  /\ requestIdCounter = 0
  /\ stdin = <<>>
  /\ workerPos = 0
  /\ store = {}
  /\ timers = {}
  /\ calls = <<>>
  /\ checkReady = FALSE
  /\ startupTimer = FALSE
  /\ startupLeft = StartupTimeout
  /\ windows = 0

\* the useState initial values of App
AppInit ==
  /\ content = <<>>
  /\ mood = InitialMood
  /\ insight = NoInsight
  /\ similar = <<>>
  /\ isAnalyzing = FALSE
  /\ entries = <<>>
  /\ showTimeline = FALSE
  /\ alert = "none"
  /\ awaited = {}
  /\ pattern = NotRendered

\* no entry is being analysed
SearchInit ==
  /\ query = <<>>
  /\ stored = <<>>
  /\ found = NotScanned

Init == MainInit /\ AppInit /\ SearchInit

\* ------------------------------------------------------ map and promises
MapHas(m, k) == k \in DOMAIN m

MapSet(m, k, v) == [x \in (DOMAIN m) \cup {k} |-> IF x = k THEN v ELSE m[x]]

MapDelete(m, k) == [x \in (DOMAIN m) \ {k} |-> m[x]]

\* resolve()/reject() of the promise of call c: the first one settles it,
\* every one is counted in `settles`
Settle(cs, c, st, val) ==
  [cs EXCEPT ![c] =
     IF @.state = "pending"
       THEN [@ EXCEPT !.state = st, !.value = val, !.settles = @ + 1]
       ELSE [@ EXCEPT !.settles = @ + 1]]

\* resolve()/reject() called for a worker message: the waiting time of the
\* request is measured only while it is pending and when it times out
Answer(cs, c, st, val) ==
  [Settle(cs, c, st, val) EXCEPT ![c].age = 0]

\* the promise of a new invocation; age is the time its request has waited
NewCall(channel, st, val, requestId) ==
  [channel |-> channel, state |-> st, value |-> val, requestId |-> requestId,
   age |-> 0, settles |-> IF st = "pending" THEN 0 ELSE 1]

\* ------------------------------------------------------- app lifecycle
\* app.whenReady().then(...): start the worker, arm the poll and the fallback
AppWhenReady ==
  /\ ~started
  /\ started' = TRUE
  /\ worker' = "running"
  /\ checkReady' = TRUE
  /\ startupTimer' = TRUE
  /\ UNCHANGED <<pythonReady, lastSignal, pendingRequests, requestIdCounter,
                 stdin, workerPos, store, timers, calls, startupLeft, windows>>
  /\ UNCHANGED <<guiVars, searchVars>>

\* faulty variant: the poll does not look at pythonReady
CheckReadyPollBlind ==
  /\ checkReady
  /\ checkReady' = FALSE
  /\ windows' = windows + 1
  /\ UNCHANGED <<started, worker, pythonReady, lastSignal, pendingRequests,
                 requestIdCounter, stdin, workerPos, store, timers, calls,
                 startupTimer, startupLeft>>
  /\ UNCHANGED <<guiVars, searchVars>>

\* one run of the setInterval callback that finds the worker ready (a run
\* that finds it not ready changes nothing)
CheckReadyPoll ==
  /\ checkReady
  /\ pythonReady
  /\ checkReady' = FALSE
  /\ windows' = windows + 1
  /\ UNCHANGED <<started, worker, pythonReady, lastSignal, pendingRequests,
                 requestIdCounter, stdin, workerPos, store, timers, calls,
                 startupTimer, startupLeft>>
  /\ UNCHANGED <<guiVars, searchVars>>

\* the setTimeout(..., 10000) callback of the startup sequence
StartupTimeoutFire ==
  /\ startupTimer
  /\ startupLeft <= 0
  /\ startupTimer' = FALSE
  /\ IF ~pythonReady
       THEN /\ checkReady' = FALSE
            /\ windows' = windows + 1
       ELSE UNCHANGED <<checkReady, windows>>
  /\ UNCHANGED <<started, worker, pythonReady, lastSignal, pendingRequests,
                 requestIdCounter, stdin, workerPos, store, timers, calls,
                 startupLeft>>
  /\ UNCHANGED <<guiVars, searchVars>>

\* ------------------------------------------------------ IPC handlers
RequestData(channel) ==
  CASE channel = "create-entry" -> "entryData"
    [] channel = "get-entries" -> "limit"
    [] channel = "get-stats" -> "empty"

\* faulty variant: the ready check is missing
sendToPythonThrowsNever == FALSE

\* sendToPython: `if (!pythonReady) throw ...`
sendToPythonThrows == ~pythonReady

\* faulty variant: the counter is not advanced
NextRequestIdStuck(counter) == counter

\* requestIdCounter++
NextRequestId(counter) == counter + 1

\* faulty variant: the id is taken before the ready check
RejectNotReadyBurnsId(channel) ==
  /\ calls' = Append(calls, NewCall(channel, "rejected", NotReadyError, NoId))
  /\ requestIdCounter' = NextRequestId(requestIdCounter)
  /\ UNCHANGED <<stdin, pendingRequests, timers>>

\* sendToPython throws before it touches anything; the handler's catch
\* rejects the promise with the error
RejectNotReady(channel) ==
  /\ calls' = Append(calls, NewCall(channel, "rejected", NotReadyError, NoId))
  /\ UNCHANGED <<requestIdCounter, stdin, pendingRequests, timers>>

\* sendToPython writes the request line; the handler stores the promise
\* handlers under the request id and arms the request's timer
SendRequest(channel, data) ==
  LET requestId == requestIdCounter
      c == Len(calls) + 1
  IN  /\ requestIdCounter' = NextRequestId(requestIdCounter)
      /\ stdin' = Append(stdin, [command |-> Command(channel),
                                 data |-> data,
                                 requestId |-> requestId])
      /\ pendingRequests' = MapSet(pendingRequests, requestId, c)
      /\ timers' = timers \cup {[requestId |-> requestId, call |-> c,
                                 left |-> TimeoutMs(channel)]}
      /\ calls' = Append(calls, NewCall(channel, "pending", "", requestId))

\* ipcMain.handle(channel): the promise executor, run for an invocation
\* with argument `data`
Invoke(channel, data) ==
  /\ windows > 0
  /\ Len(calls) < MaxCalls
  /\ IF sendToPythonThrows
       THEN RejectNotReady(channel)
       ELSE SendRequest(channel, data)
  /\ UNCHANGED <<started, worker, pythonReady, lastSignal, workerPos, store,
                 checkReady, startupTimer, startupLeft, windows>>

\* an invocation by a renderer whose own state is not looked at
IpcInvoke(channel) ==
  /\ Invoke(channel, RequestData(channel))
  /\ UNCHANGED <<guiVars, searchVars>>

\* faulty variant: the callback rejects without looking in the map
\* faulty variant: the callback does nothing
TimerFireDrops(t) ==
  /\ t \in timers
  /\ t.left <= 0
  /\ timers' = timers \ {t}
  /\ UNCHANGED <<started, worker, pythonReady, lastSignal, pendingRequests,
                 requestIdCounter, stdin, workerPos, store, calls, checkReady,
                 startupTimer, startupLeft, windows>>
  /\ UNCHANGED <<guiVars, searchVars>>

TimerFireUnchecked(t) ==
  /\ t \in timers
  /\ t.left <= 0
  /\ timers' = timers \ {t}
  /\ pendingRequests' = MapDelete(pendingRequests, t.requestId)
  /\ calls' = Settle(calls, t.call, "rejected",
                     TimeoutError(calls[t.call].channel))
  /\ UNCHANGED <<started, worker, pythonReady, lastSignal, requestIdCounter,
                 stdin, workerPos, store, checkReady, startupTimer,
                 startupLeft, windows>>
  /\ UNCHANGED <<guiVars, searchVars>>

\* faulty variant: a timeout marks the worker not ready
TimerFireGivesUp(t) ==
  /\ t \in timers
  /\ t.left <= 0
  /\ timers' = timers \ {t}
  /\ IF MapHas(pendingRequests, t.requestId)
       THEN /\ pendingRequests' = MapDelete(pendingRequests, t.requestId)
            /\ calls' = Settle(calls, t.call, "rejected",
                               TimeoutError(calls[t.call].channel))
            /\ pythonReady' = FALSE
       ELSE UNCHANGED <<pendingRequests, calls, pythonReady>>
  /\ UNCHANGED <<started, worker, lastSignal, requestIdCounter,
                 stdin, workerPos, store, checkReady, startupTimer,
                 startupLeft, windows>>
  /\ UNCHANGED <<guiVars, searchVars>>

\* the setTimeout callback armed by a handler for its request
TimerFire(t) ==
  /\ t \in timers
  /\ t.left <= 0
  /\ timers' = timers \ {t}
  /\ IF MapHas(pendingRequests, t.requestId)
       THEN /\ pendingRequests' = MapDelete(pendingRequests, t.requestId)
            /\ calls' = Settle(calls, t.call, "rejected",
                               TimeoutError(calls[t.call].channel))
       ELSE UNCHANGED <<pendingRequests, calls>>
  /\ UNCHANGED <<started, worker, pythonReady, lastSignal, requestIdCounter,
                 stdin, workerPos, store, checkReady, startupTimer,
                 startupLeft, windows>>
  /\ UNCHANGED <<guiVars, searchVars>>

\* ------------------------------------------------- worker output handling
\* JSON.parse(line) succeeds and message.type can be read
Parses(line) == line.kind = "json"

\* faulty variant: an unparsable line is taken for a worker failure
OnMalformedFails ==
  /\ pythonReady' = FALSE
  /\ UNCHANGED <<lastSignal, pendingRequests, calls>>

\* the catch block: the line is logged
OnMalformed == UNCHANGED <<pythonReady, lastSignal, pendingRequests, calls>>

\* message.type === "ready"
OnReady ==
  /\ pythonReady' = TRUE
  /\ lastSignal' = "ready"
  /\ UNCHANGED <<pendingRequests, calls>>

\* the smallest key of a map
Oldest(m) == CHOOSE k \in DOMAIN m : \A x \in DOMAIN m : k <= x

\* faulty variant: a response settles the oldest pending request
OnResponseFifo(message) ==
  LET requestId == message.requestId
  IN  /\ IF requestId # NoId /\ MapHas(pendingRequests, requestId)
           THEN /\ pendingRequests' =
                     MapDelete(pendingRequests, Oldest(pendingRequests))
                /\ calls' = Answer(calls,
                                   pendingRequests[Oldest(pendingRequests)],
                                   "resolved", message.data)
           ELSE UNCHANGED <<pendingRequests, calls>>
      /\ UNCHANGED <<pythonReady, lastSignal>>

\* message.type === "response"
OnResponse(message) ==
  LET requestId == message.requestId
  IN  /\ IF requestId # NoId /\ MapHas(pendingRequests, requestId)
           THEN /\ pendingRequests' = MapDelete(pendingRequests, requestId)
                /\ calls' = Answer(calls, pendingRequests[requestId],
                                   "resolved", message.data)
           ELSE UNCHANGED <<pendingRequests, calls>>
      /\ UNCHANGED <<pythonReady, lastSignal>>

\* faulty variant: the error branch leaves the entry in the map
OnErrorKeepsEntry(message) ==
  LET requestId == message.requestId
  IN  /\ IF requestId # NoId /\ MapHas(pendingRequests, requestId)
           THEN /\ pendingRequests' = pendingRequests
                /\ calls' = Answer(calls, pendingRequests[requestId],
                                   "rejected", message.error)
           ELSE UNCHANGED <<pendingRequests, calls>>
      /\ UNCHANGED <<pythonReady, lastSignal>>

\* faulty variant: an error that matches no entry fails the oldest request
OnErrorFailsOldest(message) ==
  LET requestId == message.requestId
  IN  /\ IF requestId # NoId /\ MapHas(pendingRequests, requestId)
           THEN /\ pendingRequests' = MapDelete(pendingRequests, requestId)
                /\ calls' = Answer(calls, pendingRequests[requestId],
                                   "rejected", message.error)
           ELSE IF pendingRequests # <<>>
             THEN /\ pendingRequests' =
                       MapDelete(pendingRequests, Oldest(pendingRequests))
                  /\ calls' = Answer(calls,
                                     pendingRequests[Oldest(pendingRequests)],
                                     "rejected", message.error)
             ELSE UNCHANGED <<pendingRequests, calls>>
      /\ UNCHANGED <<pythonReady, lastSignal>>

\* message.type === "error"
OnError(message) ==
  LET requestId == message.requestId
  IN  /\ IF requestId # NoId /\ MapHas(pendingRequests, requestId)
           THEN /\ pendingRequests' = MapDelete(pendingRequests, requestId)
                /\ calls' = Answer(calls, pendingRequests[requestId],
                                   "rejected", message.error)
           ELSE UNCHANGED <<pendingRequests, calls>>
      /\ UNCHANGED <<pythonReady, lastSignal>>

\* rl.on("line", ...): the effect of one line on the supervisor's state
OnLine(message) ==
  IF ~Parses(message)
    THEN OnMalformed
    ELSE CASE message.type = "ready" -> OnReady
           [] message.type = "response" -> OnResponse(message)
           [] message.type = "error" -> OnError(message)
           [] OTHER ->
                UNCHANGED <<pythonReady, lastSignal, pendingRequests, calls>>

\* faulty variant: the close handler leaves pythonReady set
OnCloseKeepsReady ==
  /\ worker = "running"
  /\ worker' = "closed"
  /\ lastSignal' = "close"
  /\ UNCHANGED <<started, pythonReady, pendingRequests, requestIdCounter,
                 stdin, workerPos, store, timers, calls, checkReady,
                 startupTimer, startupLeft, windows>>
  /\ UNCHANGED <<guiVars, searchVars>>

\* pythonProcess.on("close", ...): the worker process has ended
OnClose ==
  /\ worker = "running"
  /\ worker' = "closed"
  /\ pythonReady' = FALSE
  /\ lastSignal' = "close"
  /\ UNCHANGED <<started, pendingRequests, requestIdCounter, stdin, workerPos,
                 store, timers, calls, checkReady, startupTimer, startupLeft,
                 windows>>
  /\ UNCHANGED <<guiVars, searchVars>>

\* ------------------------------------------------------------ the worker
\* the worker writes a line that answers no request it has just read (a log
\* line, its ready message, a stray or repeated message) and the supervisor
\* reads it
WorkerEmit(line) ==
  /\ worker = "running"
  /\ OnLine(line)
  /\ UNCHANGED <<started, worker, requestIdCounter, stdin, workerPos, store,
                 timers, checkReady, startupTimer, startupLeft, windows>>
  /\ UNCHANGED <<guiVars, searchVars>>

\* the worker reads its next request and answers it with a response or an
\* error carrying the request's id; a create_entry that succeeds is stored
WorkerHandle ==
  /\ worker = "running"
  /\ workerPos < Len(stdin)
  /\ LET request == stdin[workerPos + 1]
     IN  /\ workerPos' = workerPos + 1
         /\ \/ /\ OnLine(ResponseLine(request.requestId, ResultOf(request)))
                 /\ store' = IF request.command = "create_entry"
                               THEN store \cup {request.requestId}
                               ELSE store
            \/ \E e \in WorkerErrors :
                 /\ OnLine(ErrorLine(request.requestId, e))
                 /\ store' = store
  /\ UNCHANGED <<started, worker, requestIdCounter, stdin, timers, checkReady,
                 startupTimer, startupLeft, windows>>
  /\ UNCHANGED <<guiVars, searchVars>>

\* ----------------------------------------------------------------- time
\* delays of the armed timers that have not expired yet
Expiries ==
  {t.left : t \in timers} \cup (IF startupTimer THEN {startupLeft} ELSE {})

Earliest(S) == CHOOSE d \in S : \A e \in S : d <= e

\* time passes until the next armed timer expires; the 100 ms poll runs
\* before that if it has something to do
Tick ==
  /\ started
  /\ Expiries # {}
  /\ \A e \in Expiries : e > 0
  /\ ~(checkReady /\ pythonReady)
  /\ LET d == Earliest(Expiries)
     IN  /\ timers' = {[t EXCEPT !.left = @ - d] : t \in timers}
         /\ startupLeft' = IF startupTimer THEN startupLeft - d ELSE startupLeft
         /\ calls' = [c \in DOMAIN calls |->
                        IF calls[c].state = "pending"
                          THEN [calls[c] EXCEPT !.age = @ + d]
                          ELSE calls[c]]
  /\ UNCHANGED <<started, worker, pythonReady, lastSignal, pendingRequests,
                 requestIdCounter, stdin, workerPos, store, checkReady,
                 startupTimer, windows>>
  /\ UNCHANGED <<guiVars, searchVars>>

\* ============================================================ the renderer
\* App and PatternTimeline of src/frontend/src/App.jsx.  A handler runs in
\* one step up to its `await`; what follows the `await` is a step of its
\* own, taken once the invocation has settled.  alert() is modal, so `alert`
\* is the alert raised by the renderer's latest step.

MaxDays == 61

MinLength == 10
TimelineLimit == 20
DaySec == (1000 * 60 * 60 * 24) \div 1000

Rep(ch, n) == [i \in 1 .. n |-> ch]

\* texts the user can have in the textarea: empty, short, ten characters
\* of which one is a blank, ten between blanks
Draft == <<" ">> \o Rep("a", 10) \o <<" ">>

Contents == { <<>>, Rep("a", 5), <<" ">> \o Rep("a", 9), Draft }

IsSpace(ch) == ch = " "

RECURSIVE TrimStart(_)
TrimStart(text) ==
  IF text # <<>> /\ IsSpace(Head(text)) THEN TrimStart(Tail(text)) ELSE text

RECURSIVE TrimEnd(_)
TrimEnd(text) ==
  IF text # <<>> /\ IsSpace(text[Len(text)])
    THEN TrimEnd(SubSeq(text, 1, Len(text) - 1))
    ELSE text

\* String.prototype.trim
Trim(text) == TrimEnd(TrimStart(text))

\* the conditional rendering of App
View ==
  IF insight = NoInsight /\ ~showTimeline THEN "writing"
  ELSE IF showTimeline THEN "timeline"
  ELSE "insight"

SubmitEnabledWhileAnalyzing == ~(Len(content) < MinLength)

\* the submit button is not disabled
SubmitEnabled == ~(isAnalyzing \/ Len(content) < MinLength)

TooShortUntrimmed(text) == Len(text) < MinLength

TooShort(text) == Len(Trim(text)) < MinLength

\* a similar entry as the worker returns it; the timestamp is kept as the
\* entry's age in seconds at the time of rendering, the similarity in percent
SimilarEntry(days, offset, m, s) ==
  [ageSec |-> days * DaySec + offset, mood |-> m, similarity |-> s]

\* the worker returns its matches best first
SortedBySimilarity(list) ==
  \A i \in 1 .. Len(list) - 1 : list[i].similarity >= list[i + 1].similarity

\* match lists the worker answers an analysis with
WorkerLists ==
  { <<>>,
    <<SimilarEntry(1, 0, 4, 90), SimilarEntry(8, 0, 3, 60)>> }

InsightText == "insight"

\* data of a create_entry response; similar_entries may be missing
AnalysisResults ==
  {[insight |-> InsightText]}
  \cup {[insight |-> InsightText, similar_entries |-> list] :
          list \in WorkerLists}

\* data of a get_entries response; entries may be missing
EntriesResults ==
  {[count |-> 0], [entries |-> <<"entry">>]}

\* response.similar_entries || []
SimilarEntriesOf(response) ==
  IF "similar_entries" \in DOMAIN response
    THEN response.similar_entries
    ELSE <<>>

EntriesOfKeepsOld(result) ==
  IF "entries" \in DOMAIN result THEN result.entries ELSE entries

\* result.entries || []
EntriesOf(result) ==
  IF "entries" \in DOMAIN result THEN result.entries ELSE <<>>

\* textarea onChange
SetContent(text) ==
  /\ windows > 0
  /\ View = "writing"
  /\ ~isAnalyzing
  /\ content' = text
  /\ alert' = "none"
  /\ UNCHANGED <<mood, insight, similar, isAnalyzing, entries, showTimeline,
                 awaited, pattern>>
  /\ UNCHANGED mainVars
  /\ UNCHANGED searchVars

\* a mood button's onClick
SetMood(num) ==
  /\ windows > 0
  /\ View = "writing"
  /\ mood' = num
  /\ alert' = "none"
  /\ UNCHANGED <<content, insight, similar, isAnalyzing, entries,
                 showTimeline, awaited, pattern>>
  /\ UNCHANGED mainVars
  /\ UNCHANGED searchVars

\* handleSubmit up to its await
handleSubmit ==
  /\ windows > 0
  /\ View = "writing"
  /\ SubmitEnabled
  /\ IF TooShort(content)
       THEN /\ alert' = "min-length"
            /\ UNCHANGED <<isAnalyzing, awaited>>
            /\ UNCHANGED mainVars
       ELSE /\ isAnalyzing' = TRUE
            /\ Invoke("create-entry",
                      [content |-> Trim(content), mood_rating |-> mood])
            /\ awaited' = awaited \cup {Len(calls) + 1}
            /\ alert' = "none"
  /\ UNCHANGED <<content, mood, insight, similar, entries, showTimeline,
                 pattern>>
  /\ UNCHANGED searchVars

\* handleSubmit after its await, the invocation resolved with `response`
handleSubmitResolved(c, response) ==
  /\ c \in awaited
  /\ calls[c].channel = "create-entry"
  /\ calls[c].state = "resolved"
  /\ insight' = response.insight
  /\ similar' = SimilarEntriesOf(response)
  /\ isAnalyzing' = FALSE
  /\ awaited' = awaited \ {c}
  /\ alert' = "none"
  /\ UNCHANGED <<content, mood, entries, showTimeline, pattern>>
  /\ UNCHANGED mainVars
  /\ UNCHANGED searchVars

handleSubmitRejectedStuck(c) ==
  /\ c \in awaited
  /\ calls[c].channel = "create-entry"
  /\ calls[c].state = "rejected"
  /\ alert' = "failed"
  /\ awaited' = awaited \ {c}
  /\ UNCHANGED <<content, mood, insight, similar, entries, showTimeline,
                 pattern, isAnalyzing>>
  /\ UNCHANGED mainVars
  /\ UNCHANGED searchVars

handleSubmitRejectedClears(c) ==
  /\ c \in awaited
  /\ calls[c].channel = "create-entry"
  /\ calls[c].state = "rejected"
  /\ alert' = "failed"
  /\ isAnalyzing' = FALSE
  /\ content' = <<>>
  /\ awaited' = awaited \ {c}
  /\ UNCHANGED <<mood, insight, similar, entries, showTimeline, pattern>>
  /\ UNCHANGED mainVars
  /\ UNCHANGED searchVars

\* handleSubmit after its await, the invocation rejected
handleSubmitRejected(c) ==
  /\ c \in awaited
  /\ calls[c].channel = "create-entry"
  /\ calls[c].state = "rejected"
  /\ alert' = "failed"
  /\ isAnalyzing' = FALSE
  /\ awaited' = awaited \ {c}
  /\ UNCHANGED <<content, mood, insight, similar, entries, showTimeline,
                 pattern>>
  /\ UNCHANGED mainVars
  /\ UNCHANGED searchVars

\* handleNewEntry, "Write Another Entry" of the insight view
handleNewEntry ==
  /\ windows > 0
  /\ View = "insight"
  /\ content' = <<>>
  /\ mood' = InitialMood
  /\ insight' = NoInsight
  /\ similar' = <<>>
  /\ showTimeline' = FALSE
  /\ alert' = "none"
  /\ UNCHANGED <<isAnalyzing, entries, awaited, pattern>>
  /\ UNCHANGED mainVars
  /\ UNCHANGED searchVars

\* loadTimeline up to its await: "View Past Entries" of the writing view,
\* "View Timeline" of the insight view
loadTimeline ==
  /\ windows > 0
  /\ View \in {"writing", "insight"}
  /\ Invoke("get-entries", [limit |-> TimelineLimit])
  /\ awaited' = awaited \cup {Len(calls) + 1}
  /\ alert' = "none"
  /\ UNCHANGED <<content, mood, insight, similar, isAnalyzing, entries,
                 showTimeline, pattern>>
  /\ UNCHANGED searchVars

\* loadTimeline after its await, the invocation resolved with result
loadTimelineResolved(c, result) ==
  /\ c \in awaited
  /\ calls[c].channel = "get-entries"
  /\ calls[c].state = "resolved"
  /\ entries' = EntriesOf(result)
  /\ showTimeline' = TRUE
  /\ awaited' = awaited \ {c}
  /\ alert' = "none"
  /\ UNCHANGED <<content, mood, insight, similar, isAnalyzing, pattern>>
  /\ UNCHANGED mainVars
  /\ UNCHANGED searchVars

loadTimelineRejectedShows(c) ==
  /\ c \in awaited
  /\ calls[c].channel = "get-entries"
  /\ calls[c].state = "rejected"
  /\ showTimeline' = TRUE
  /\ awaited' = awaited \ {c}
  /\ alert' = "none"
  /\ UNCHANGED <<content, mood, insight, similar, isAnalyzing, pattern,
                 entries>>
  /\ UNCHANGED mainVars
  /\ UNCHANGED searchVars

\* loadTimeline after its await, the invocation rejected: console.error only
loadTimelineRejected(c) ==
  /\ c \in awaited
  /\ calls[c].channel = "get-entries"
  /\ calls[c].state = "rejected"
  /\ awaited' = awaited \ {c}
  /\ alert' = "none"
  /\ UNCHANGED <<content, mood, insight, similar, isAnalyzing, pattern,
                 entries, showTimeline>>
  /\ UNCHANGED mainVars
  /\ UNCHANGED searchVars

\* loadTimeline after its await
loadTimelineResume(c) ==
  \/ \E result \in EntriesResults : loadTimelineResolved(c, result)
  \/ loadTimelineRejected(c)

\* "Back to writing" of the timeline view
BackToWriting ==
  /\ windows > 0
  /\ View = "timeline"
  /\ showTimeline' = FALSE
  /\ alert' = "none"
  /\ UNCHANGED <<content, mood, insight, similar, isAnalyzing, entries,
                 awaited, pattern>>
  /\ UNCHANGED mainVars
  /\ UNCHANGED searchVars

\* --------------------------------------------------------- PatternTimeline
\* Math.floor((now - pastDate) / (1000 * 60 * 60 * 24)); dividing the whole
\* seconds by the seconds of a day gives the same whole number of days
DaysAgo(entry) == entry.ageSec \div DaySec

TimePhraseWeekLate(daysAgo) ==
  IF daysAgo = 0 THEN "Earlier today"
  ELSE IF daysAgo = 1 THEN "Yesterday"
  ELSE IF daysAgo <= 7 THEN ToString(daysAgo) \o " days ago"
  ELSE IF daysAgo < 30 THEN ToString(daysAgo \div 7) \o " weeks ago"
  ELSE ToString(daysAgo \div 30) \o " months ago"

TimePhrase(daysAgo) ==
  IF daysAgo = 0 THEN "Earlier today"
  ELSE IF daysAgo = 1 THEN "Yesterday"
  ELSE IF daysAgo < 7 THEN ToString(daysAgo) \o " days ago"
  ELSE IF daysAgo < 30 THEN ToString(daysAgo \div 7) \o " weeks ago"
  ELSE ToString(daysAgo \div 30) \o " months ago"

patternImprovedOrSame(mostSimilar, currentMood) ==
  mostSimilar.mood <= currentMood

patternImproved(mostSimilar, currentMood) == mostSimilar.mood < currentMood

ImprovingOutlook ==
  [icon |-> "glowing star", caption |-> "Pattern improving",
   text |-> "Your mood improved from last time! Keep doing what works."]

HelpsOutlook ==
  [icon |-> "flexed biceps", caption |-> "What helps?",
   text |-> "What helped you move forward before?"]

OutlookAlwaysImproving(improved) == ImprovingOutlook

\* the "Next time?" column
Outlook(improved) == IF improved THEN ImprovingOutlook ELSE HelpsOutlook

MostSimilarLast(similarEntries) == similarEntries[Len(similarEntries)]

\* const mostSimilar = similarEntries[0]
MostSimilar(similarEntries) == similarEntries[1]

\* what the component renders for its props
PatternTimeline(currentMood, similarEntries) ==
  IF Len(similarEntries) = 0
    THEN NotRendered
    ELSE LET mostSimilar == MostSimilar(similarEntries)
             daysAgo == DaysAgo(mostSimilar)
             improved == patternImproved(mostSimilar, currentMood)
         IN  [rendered |-> TRUE,
              mostSimilar |-> mostSimilar,
              timePhrase |-> TimePhrase(daysAgo),
              patternImproved |-> improved,
              outlook |-> Outlook(improved)]

\* similar.length > 0 && <details>, in the insight view
SimilarSectionShown == View = "insight" /\ Len(similar) > 0

\* the insight view renders PatternTimeline with the state of App
RenderPatternTimeline ==
  /\ View = "insight"
  /\ pattern' = PatternTimeline(mood, similar)
  /\ UNCHANGED <<content, mood, insight, similar, isAnalyzing, entries,
                 showTimeline, alert, awaited>>
  /\ UNCHANGED mainVars
  /\ UNCHANGED searchVars

\* inputs of the rendering: the best match of any age up to MaxDays, at the
\* start and at the end of its day, alone or followed by a second match
Similarities == {60, 90}

FirstEntries ==
  {SimilarEntry(days, offset, m, s) :
     days \in 0 .. MaxDays, offset \in {0, DaySec - 1},
     m \in MoodButtons, s \in Similarities}

SecondEntries == {SimilarEntry(3, 0, InitialMood, s) : s \in Similarities}

ViewLists ==
  {<<>>}
  \cup {<<e>> : e \in FirstEntries}
  \cup {list \in {<<e, f>> : e \in FirstEntries, f \in SecondEntries} :
          SortedBySimilarity(list)}

\* App showing the insight view for an analysis of any mood and match list
InitView ==
  /\ MainInit
  /\ content = Draft
  /\ mood \in MoodButtons
  /\ insight = InsightText
  /\ similar \in ViewLists
  /\ isAnalyzing = FALSE
  /\ entries = <<>>
  /\ showTimeline = FALSE
  /\ alert = "none"
  /\ awaited = {}
  /\ pattern = NotRendered
  /\ SearchInit

NextView == RenderPatternTimeline

SpecView == InitView /\ [][NextView]_vars

\* ------------------------------------------------- the similarity search
\* The worker's scan of the stored embeddings (step 1 of the similarity
\* search).  The worker is not part of the sources.  The design description
\* has the scan fail with a data-integrity error when the dimensions of two
\* embeddings differ, and says of the source that it leaves this case
\* undefined: the scan below may then fail, or score the vectors cut to the
\* shorter or filled up with zeros to the longer dimension.
MaxDim == 2
MaxStored == 2

Components == {-1, 1}

Embeddings == UNION {[1 .. n -> Components] : n \in 1 .. MaxDim}

Stores == UNION {[1 .. n -> Embeddings] : n \in 0 .. MaxStored}

RECURSIVE Dot(_, _)
Dot(a, b) ==
  IF a = <<>> \/ b = <<>> THEN 0
  ELSE Head(a) * Head(b) + Dot(Tail(a), Tail(b))

\* cosine similarity, kept exact: the dot product and the product of the
\* squared norms
Cosine(a, b) == [dot |-> Dot(a, b), norms |-> Dot(a, a) * Dot(b, b)]

Min(x, y) == IF x <= y THEN x ELSE y
Max(x, y) == IF x >= y THEN x ELSE y

Truncated(a, n) == SubSeq(a, 1, n)

Padded(a, n) == a \o [i \in 1 .. n - Len(a) |-> 0]

DataIntegrityError == [done |-> TRUE, error |-> "data-integrity", scores |-> <<>>]

Scores(list) == [done |-> TRUE, error |-> "", scores |-> list]

Mismatch(a, list) == \E i \in DOMAIN list : Len(list[i]) # Len(a)

\* the outcomes of scanning `list` for the embedding a
ScanOutcomes(a, list) ==
  IF ~Mismatch(a, list)
    THEN {Scores([i \in DOMAIN list |-> Cosine(a, list[i])])}
    ELSE {DataIntegrityError,
          Scores([i \in DOMAIN list |->
                    LET n == Min(Len(a), Len(list[i]))
                    IN  Cosine(Truncated(a, n), Truncated(list[i], n))]),
          Scores([i \in DOMAIN list |->
                    LET n == Max(Len(a), Len(list[i]))
                    IN  Cosine(Padded(a, n), Padded(list[i], n))])}

CosineScan ==
  /\ ~found.done
  /\ found' \in ScanOutcomes(query, stored)
  /\ UNCHANGED <<query, stored>>
  /\ UNCHANGED <<mainVars, guiVars>>

\* a new entry of any embedding against any store
InitSearch ==
  /\ MainInit
  /\ AppInit
  /\ query \in Embeddings
  /\ stored \in Stores
  /\ found = NotScanned

NextSearch == CosineScan

SpecSearch == InitSearch /\ [][NextSearch]_vars

Next ==
  \/ AppWhenReady
  \/ CheckReadyPoll
  \/ StartupTimeoutFire
  \/ \E channel \in Channels : IpcInvoke(channel)
  \/ \E t \in timers : TimerFire(t)
  \/ \E line \in Lines : WorkerEmit(line)
  \/ WorkerHandle
  \/ OnClose
  \/ Tick

Spec == Init /\ [][Next]_vars

\* the event loop runs every timer callback that is due, and time passes
LiveSpec ==
  /\ Spec
  /\ WF_vars(Tick)
  /\ WF_vars(CheckReadyPoll)
  /\ WF_vars(StartupTimeoutFire)
  /\ WF_vars(\E t \in timers : TimerFire(t))

\* ------------------------------------------------ the application as used
\* the main process driven by the renderer, the worker keeping to its
\* protocol; the user writes one text long enough to be sent and presses
\* the last mood button
LastMoodButton == CHOOSE num \in MoodButtons : \A n \in MoodButtons : n <= num

NextGui ==
  \/ AppWhenReady
  \/ CheckReadyPoll
  \/ StartupTimeoutFire
  \/ SetContent(Draft)
  \/ SetMood(LastMoodButton)
  \/ handleSubmit
  \/ \E c \in awaited, response \in AnalysisResults :
       handleSubmitResolved(c, response)
  \/ \E c \in awaited : handleSubmitRejected(c)
  \/ handleNewEntry
  \/ loadTimeline
  \/ \E c \in awaited : loadTimelineResume(c)
  \/ BackToWriting
  \/ \E t \in timers : TimerFire(t)
  \/ WorkerEmit(ReadyLine)
  \/ WorkerHandle
  \/ OnClose
  \/ Tick

SpecGui == Init /\ [][NextGui]_vars

\* SpecGui with the timers of the main process firing when due and the
\* continuations of handleSubmit running once their invocation is settled
LiveSpecGui ==
  /\ SpecGui
  /\ WF_vars(Tick)
  /\ WF_vars(CheckReadyPoll)
  /\ WF_vars(StartupTimeoutFire)
  /\ WF_vars(\E t \in timers : TimerFire(t))
  /\ WF_vars(\E c \in awaited, response \in AnalysisResults :
               handleSubmitResolved(c, response))
  /\ WF_vars(\E c \in awaited : handleSubmitRejected(c))

\* ------------------------------------------------------- the writing form
\* the writing form with every text and every mood button, used against a
\* worker that answers (with a result or an error) or exits before any
\* timer expires
NextForm ==
  \/ AppWhenReady
  \/ CheckReadyPoll
  \/ \E text \in Contents : SetContent(text)
  \/ \E num \in MoodButtons : SetMood(num)
  \/ handleSubmit
  \/ \E c \in awaited, response \in AnalysisResults :
       handleSubmitResolved(c, response)
  \/ \E c \in awaited : handleSubmitRejected(c)
  \/ handleNewEntry
  \/ WorkerEmit(ReadyLine)
  \/ WorkerHandle
  \/ OnClose

SpecForm == Init /\ [][NextForm]_vars

TypeOK ==
  /\ started \in BOOLEAN
  /\ worker \in {"none", "running", "closed"}
  /\ pythonReady \in BOOLEAN
  /\ requestIdCounter \in 0 .. MaxCalls
  /\ workerPos \in 0 .. Len(stdin)
  /\ Len(calls) <= MaxCalls
  /\ windows \in 0 .. 2
  /\ mood \in Int
  /\ isAnalyzing \in BOOLEAN
  /\ showTimeline \in BOOLEAN
  /\ alert \in {"none", "min-length", "failed"}
  /\ awaited \subseteq 1 .. MaxCalls
  /\ pattern.rendered \in BOOLEAN

\* =================================================================== claims
\* a timed-out call: rejected by its own timer
TimedOut(c) ==
  /\ calls[c].state = "rejected"
  /\ calls[c].value = TimeoutError(calls[c].channel)

\* the response lines the worker writes for the requests it has been sent
AnswerLines ==
  {ResponseLine(stdin[i].requestId, ResultOf(stdin[i])) : i \in 1 .. Len(stdin)}

\* this step is the supervisor reading `line` from the worker
Delivered(line) ==
  \/ WorkerEmit(line)
  \/ /\ WorkerHandle
     /\ line.requestId = stdin[workerPos + 1].requestId
     /\ line.type \in {"response", "error"}
     /\ OnLine(line)

\* this step is an IPC invocation: a new promise is returned
Invoked == Len(calls') = Len(calls) + 1

LastCall == calls'[Len(calls')]

\* the message settles exactly the call sent with its id, and only that one
SettlesExactly(line, st, val) ==
  LET r == line.requestId
  IN  /\ pendingRequests' = MapDelete(pendingRequests, r)
      /\ \E c \in DOMAIN calls : calls[c].requestId = r
      /\ \A c \in DOMAIN calls :
           IF calls[c].requestId = r
             THEN /\ calls[c].state = "pending"
                  /\ calls'[c].state = st
                  /\ calls'[c].value = val
                  /\ calls'[c].settles = 1
                  /\ calls'[c].channel = calls[c].channel
                  /\ calls'[c].requestId = r
             ELSE calls'[c] = calls[c]

\* C1 (ready gate): a request line is written to the worker's stdin only if
\* the last thing the supervisor saw of the worker's life cycle is a "ready"
\* message, i.e. a ready message was received and the worker has not exited
\* since; for every command.
C1_ReadyGate == [][stdin' # stdin => lastSignal = "ready"]_vars

\* a request has been written in a ready period, the worker has exited since
\* and a later invocation was refused
C1_Witness ==
  /\ Len(stdin) = 1
  /\ lastSignal = "close"
  /\ Len(calls) = 2
  /\ calls[2].value = NotReadyError

\* C2 (worker not ready): an invocation made while the worker is not ready is
\* rejected at once with "Python subprocess not ready"; nothing is written,
\* the id counter, the pending map and the timers are unchanged.
C2_NotReady ==
  [][(Invoked /\ ~pythonReady) =>
       /\ LastCall.state = "rejected"
       /\ LastCall.value = NotReadyError
       /\ LastCall.settles = 1
       /\ SubSeq(calls', 1, Len(calls)) = calls
       /\ UNCHANGED <<stdin, requestIdCounter, pendingRequests, timers>>]_vars

\* invocations on two different channels were refused before anything was sent
C2_Witness ==
  /\ Len(calls) = 2
  /\ calls[1].value = NotReadyError
  /\ calls[2].value = NotReadyError
  /\ calls[1].channel # calls[2].channel
  /\ stdin = <<>>
  /\ requestIdCounter = 0

\* C3 (correlation): a "response" message with requestId r, r pending,
\* resolves exactly the call that was sent with id r, with the message's
\* data; every other call and every other pending entry is unchanged.
C3_Correlation ==
  [][\A line \in Lines \cup AnswerLines :
       (/\ line.type = "response"
        /\ MapHas(pendingRequests, line.requestId)
        /\ Delivered(line))
         => SettlesExactly(line, "resolved", line.data)]_vars

\* two requests were outstanding, the second was answered first
C3_Witness ==
  /\ Len(calls) = 2
  /\ calls[1].state = "pending"
  /\ calls[1].requestId = 0
  /\ calls[2].state = "resolved"
  /\ calls[2].requestId = 1
  /\ DOMAIN pendingRequests = {0}

\* C4 (monotonic ids): the i-th request written carries id i-1, so ids start
\* at 0, grow by 1 and are strictly increasing; no two calls share an id.
C4_MonotonicIds ==
  /\ \A i \in 1 .. Len(stdin) : stdin[i].requestId = i - 1
  /\ \A i, j \in 1 .. Len(stdin) :
       i < j => stdin[i].requestId < stdin[j].requestId
  /\ \A c, d \in DOMAIN calls :
       (c # d /\ calls[c].requestId # NoId) =>
          calls[c].requestId # calls[d].requestId

\* two requests are pending at once
C4_Witness ==
  /\ Len(stdin) = 2
  /\ DOMAIN pendingRequests = {0, 1}

\* C5 (correlated errors): an "error" message with requestId r, r pending,
\* rejects exactly the call sent with id r with the worker's error string,
\* removes r from the pending map and leaves every other call untouched.
C5_CorrelatedError ==
  [][\A line \in Lines :
       (/\ line.type = "error"
        /\ MapHas(pendingRequests, line.requestId)
        /\ Delivered(line))
         => SettlesExactly(line, "rejected", line.error)]_vars

\* of two outstanding requests the second was rejected by the worker
C5_Witness ==
  /\ Len(calls) = 2
  /\ calls[1].state = "pending"
  /\ calls[2].state = "rejected"
  /\ calls[2].value \in WorkerErrors
  /\ DOMAIN pendingRequests = {0}

\* C6 (timeout): a sent request stays pending, in the map, for at most its
\* window (30 s for create-entry, 5 s for get-entries and get-stats); it is
\* rejected with its timeout error exactly when that window has elapsed, and
\* it is then no longer in the map.
C6_Timeout ==
  \A c \in DOMAIN calls :
    LET window == IF calls[c].channel = "create-entry" THEN 30000 ELSE 5000
    IN  calls[c].requestId # NoId =>
          /\ calls[c].state = "pending" =>
               /\ calls[c].age <= window
               /\ MapHas(pendingRequests, calls[c].requestId)
          /\ TimedOut(c) =>
               /\ calls[c].age = window
               /\ ~MapHas(pendingRequests, calls[c].requestId)

\* a create-entry timed out after 30 s and a query after 5 s
C6_Witness ==
  \E c, d \in DOMAIN calls :
    /\ calls[c].channel = "create-entry" /\ TimedOut(c)
    /\ calls[c].age = 30000
    /\ calls[d].channel # "create-entry" /\ TimedOut(d)
    /\ calls[d].age = 5000

\* C7 (settled at most once): once a call is settled nothing changes it and
\* neither resolve nor reject is called for it again; a message carrying the
\* id of a settled request and the timer of a settled request change no call
\* and no pending entry.
C7_SettledOnce ==
  [][/\ \A c \in DOMAIN calls :
          calls[c].state # "pending" => calls'[c] = calls[c]
     /\ \A c \in DOMAIN calls :
          calls'[c].settles <= 1
     /\ \/ UNCHANGED <<calls, pendingRequests>>
        \/ /\ \A line \in Lines \cup AnswerLines :
                ~(/\ \E c \in DOMAIN calls :
                       /\ calls[c].requestId = line.requestId
                       /\ calls[c].state # "pending"
                  /\ Delivered(line))
           /\ \A t \in timers :
                ~(calls[t.call].state # "pending" /\ TimerFire(t))]_vars

\* call 1 timed out and the worker answered it afterwards; call 2 was
\* answered and its timer has fired since
C7_Witness ==
  /\ Len(calls) = 2
  /\ TimedOut(1)
  /\ workerPos = 2
  /\ calls[2].state = "resolved"
  /\ timers = {}
  /\ calls[1].settles = 1
  /\ calls[2].settles = 1

\* C8 (no cancellation): a request timer that fires writes nothing to the
\* worker and leaves the ready flag and the worker alone.
C8_NoCancellation ==
  [][\A t \in timers :
       TimerFire(t) =>
         UNCHANGED <<stdin, pythonReady, worker, workerPos, store>>]_vars

\* a create-entry timed out, the worker was still ready, and the worker
\* stored the entry all the same
C8_Witness ==
  \E c \in DOMAIN calls :
    /\ calls[c].channel = "create-entry"
    /\ TimedOut(c)
    /\ calls[c].requestId \in store
    /\ pythonReady

\* C9 (worker crash): the close event leaves the worker not ready; after it
\* the worker stays closed and not ready, and every invocation is rejected
\* with the not-ready error.
C9_WorkerCrash ==
  [][/\ worker' = "closed" => ~pythonReady'
     /\ worker = "closed" => worker' = "closed"
     /\ (worker = "closed" /\ Invoked) =>
          /\ LastCall.state = "rejected"
          /\ LastCall.value = NotReadyError
          /\ stdin' = stdin]_vars

\* the worker exited with a request outstanding; a later invocation failed
C9_Witness ==
  /\ worker = "closed"
  /\ Len(calls) = 2
  /\ calls[1].requestId = 0
  /\ calls[2].value = NotReadyError
  /\ calls[2].requestId = NoId

\* C10 (malformed output): reading a line that is not a JSON protocol
\* message (not JSON, the JSON value null, or JSON of an unknown type)
\* changes nothing at all, so nothing is settled, the map, the counter and
\* the ready flag are as before, and reading goes on as before.
C10_Malformed ==
  [][\A line \in {TextLine, NullLine, OtherLine} :
       WorkerEmit(line) => UNCHANGED vars]_vars

\* a state in which malformed lines are read with a request outstanding
C10_Witness ==
  /\ worker = "running"
  /\ pythonReady
  /\ pendingRequests # <<>>

\* C11 (single request at a time): at most one request is outstanding at
\* any time, the renderer sends no request while an earlier one still
\* awaits its response or its timeout.
C11_SingleRequest == Cardinality(DOMAIN pendingRequests) <= 1

\* C12 (pending-map cleanup): every entry added to the pending map is
\* eventually removed and every invocation eventually gets its result or
\* its error, whether or not the worker answers or stays alive.
C12_Cleanup ==
  \A c \in 1 .. MaxCalls :
    (Len(calls) >= c)
      ~> /\ Len(calls) >= c
         /\ calls[c].state # "pending"
         /\ ~MapHas(pendingRequests, calls[c].requestId)

\* the worker exited with a request outstanding, the request's timer
\* emptied the map and failed the invocation
C12_Witness ==
  /\ worker = "closed"
  /\ Len(calls) = 1
  /\ calls[1].requestId = 0
  /\ calls[1].state = "rejected"
  /\ calls[1].age > 0
  /\ pendingRequests = <<>>
  /\ timers = {}

\* C13 (relative-time bucketing): with d the whole days between the matched
\* entry and now, the phrase is "Earlier today" for d = 0, "Yesterday" for
\* d = 1, "d days ago" for 2 <= d < 7, "floor(d/7) weeks ago" for
\* 7 <= d < 30 and "floor(d/30) months ago" for d >= 30; d is in exactly
\* one of these buckets and the number in a phrase is at least 1.
C13_Buckets ==
  pattern.rendered =>
    LET d == pattern.mostSimilar.ageSec \div 86400
        bucket == [b \in 1 .. 5 |->
                     CASE b = 1 -> d = 0
                       [] b = 2 -> d = 1
                       [] b = 3 -> 2 <= d /\ d < 7
                       [] b = 4 -> 7 <= d /\ d < 30
                       [] b = 5 -> d >= 30]
    IN  /\ Cardinality({b \in 1 .. 5 : bucket[b]}) = 1
        /\ bucket[1] => pattern.timePhrase = "Earlier today"
        /\ bucket[2] => pattern.timePhrase = "Yesterday"
        /\ bucket[3] => /\ pattern.timePhrase = ToString(d) \o " days ago"
                        /\ d >= 1
        /\ bucket[4] => /\ pattern.timePhrase
                             = ToString(d \div 7) \o " weeks ago"
                        /\ d \div 7 >= 1
        /\ bucket[5] => /\ pattern.timePhrase
                             = ToString(d \div 30) \o " months ago"
                        /\ d \div 30 >= 1

\* a match written exactly 8 days ago is rendered with a week-based phrase
C13_Witness ==
  /\ pattern.rendered
  /\ pattern.mostSimilar.ageSec = 8 * 86400
  /\ pattern.timePhrase = "1 weeks ago"

\* C14 (mood trend): the comparison is classified as improved exactly when
\* the new entry's mood is strictly greater than the matched entry's mood.
C14_Improved ==
  pattern.rendered =>
    /\ pattern.patternImproved <=> (mood > pattern.mostSimilar.mood)
    /\ (pattern.outlook.caption = "Pattern improving")
         <=> (mood > pattern.mostSimilar.mood)

\* a rendering for equal moods, which is not classified as improved
C14_Witness ==
  /\ pattern.rendered
  /\ mood = 4
  /\ pattern.mostSimilar.mood = 4
  /\ ~pattern.patternImproved

\* C15 (three-way trend), as stated: a worsened mood is rendered with a
\* text other than the one rendered for an unchanged mood.
C15_ThreeWay ==
  (pattern.rendered /\ mood < pattern.mostSimilar.mood) =>
    pattern.outlook
      # PatternTimeline(pattern.mostSimilar.mood, similar).outlook

\* C15, amended: the text distinguishes two cases, improved (new > past)
\* and not improved; a worsened mood and an unchanged mood are rendered
\* with the same text.
C15_TwoWay ==
  pattern.rendered =>
    /\ mood > pattern.mostSimilar.mood =>
         pattern.outlook.text
           = "Your mood improved from last time! Keep doing what works."
    /\ mood <= pattern.mostSimilar.mood =>
         pattern.outlook.text = "What helped you move forward before?"
    /\ mood < pattern.mostSimilar.mood =>
         pattern.outlook
           = PatternTimeline(pattern.mostSimilar.mood, similar).outlook

\* a rendering for a worsened mood
C15_Witness ==
  /\ pattern.rendered
  /\ mood = 2
  /\ pattern.mostSimilar.mood = 5
  /\ pattern.outlook.caption = "What helps?"

\* C16 (most similar match): the entry quoted and compared is one with the
\* highest similarity among the entries returned for the request.
C16_MostSimilar ==
  pattern.rendered =>
    /\ \E i \in DOMAIN similar : similar[i] = pattern.mostSimilar
    /\ \A i \in DOMAIN similar :
         similar[i].similarity <= pattern.mostSimilar.similarity

\* two matches of different similarity, the better one rendered
C16_Witness ==
  /\ pattern.rendered
  /\ Len(similar) = 2
  /\ similar[2].similarity < similar[1].similarity
  /\ pattern.mostSimilar.similarity = 90

\* C17 (empty match list is not an error): when the create-entry response
\* has an empty or no list of similar entries, the insight of the response
\* is shown, the similar entries are the empty list, neither the pattern
\* timeline nor the similar-entries section is rendered, and no failure
\* alert is raised.
C17_EmptyMatches ==
  [][\A c \in awaited, response \in AnalysisResults :
       (SimilarEntriesOf(response) = <<>>
          /\ handleSubmitResolved(c, response)) =>
         /\ insight' = response.insight
         /\ View' = "insight"
         /\ similar' = <<>>
         /\ ~PatternTimeline(mood', similar').rendered
         /\ ~SimilarSectionShown'
         /\ alert' # "failed"]_vars

C19_NoMinimumLength ==
  (windows > 0 /\ View = "writing" /\ ~isAnalyzing) =>
    (SubmitEnabled /\ ~TooShort(content))

\* C20 (mood range): the selected mood is an integer in 1..5, initially 3,
\* and every create_entry request written to the worker has a mood_rating
\* in 1..5.
C20_MoodRange ==
  /\ mood \in 1 .. 5
  /\ windows = 0 => mood = 3
  /\ \A i \in DOMAIN stdin :
       stdin[i].command = "create_entry" =>
         stdin[i].data.mood_rating \in 1 .. 5

\* a request sent with mood 5, a reset to 3 and a click on 1 since
C20_Witness ==
  /\ Len(stdin) = 2
  /\ stdin[1].data.mood_rating = 5
  /\ stdin[2].data.mood_rating = 3
  /\ mood = 1

\* C21 (startup ordering): the worker is started when the application
\* becomes ready, before any window; a window is created only when the
\* worker has signalled ready or when 10 seconds have passed since startup,
\* and when the 10 seconds pass with the worker not ready the window is
\* created anyway.
C21_StartupOrder ==
  [][/\ (started' /\ ~started) => (worker' = "running" /\ windows' = 0)
     /\ windows' # windows =>
          /\ started
          /\ worker # "none"
          /\ lastSignal = "ready" \/ 10000 - startupLeft >= 10000
     /\ (startupTimer /\ ~startupTimer' /\ lastSignal # "ready") =>
          windows' = windows + 1]_vars

\* the worker never signalled ready and the window was created by the
\* 10-second fallback
C21_Witness ==
  /\ windows = 1
  /\ lastSignal = "none"
  /\ worker = "running"
  /\ ~startupTimer
  /\ startupLeft = 0

\* C24 (uncorrelated messages): a response or error message without a
\* requestId, or with one that is not in the pending map, settles no
\* invocation and leaves the pending map, the counter and the ready flag
\* as they were.
C24_Uncorrelated ==
  [][\/ UNCHANGED <<calls, pendingRequests, requestIdCounter, pythonReady>>
     \/ \A line \in Lines \cup AnswerLines :
          ~(/\ line.type \in {"response", "error"}
            /\ ~MapHas(pendingRequests, line.requestId)
            /\ Delivered(line))]_vars

\* call 1 timed out and was answered by the worker afterwards, with call 2
\* still pending
C24_Witness ==
  /\ Len(calls) = 2
  /\ TimedOut(1)
  /\ workerPos >= 1
  /\ calls[2].state = "pending"
  /\ MapHas(pendingRequests, calls[2].requestId)

\* C25 (exactly one main window): the startup logic calls createWindow
\* exactly once, from the ready poll or from the 10-second fallback, never
\* from both.
C25_OneWindow ==
  /\ windows <= 1
  /\ (started /\ ~checkReady /\ ~startupTimer) => windows = 1

OutstandingSubmissions ==
  {c \in 1 .. Len(calls) :
     calls[c].channel = "create-entry" /\ calls[c].state = "pending"}

\* C23 (no double submission): whatever the user does in the window
\* (submitting, mood clicks, opening and leaving the timeline, failed
\* analyses), at most one create-entry invocation is outstanding at any
\* time, and a create-entry invocation is made only when every earlier one
\* has been settled.
C23_NoDoubleSubmission ==
  /\ Cardinality(OutstandingSubmissions) <= 1
  /\ Cardinality({c \in awaited : calls[c].channel = "create-entry"}) <= 1

\* a second analysis is outstanding after the first one was settled and the
\* timeline is not involved
C23_Witness ==
  /\ Len(calls) = 2
  /\ calls[1].channel = "create-entry"
  /\ calls[1].state # "pending"
  /\ calls[2].channel = "create-entry"
  /\ calls[2].state = "pending"
  /\ isAnalyzing

\* the create-entry invocations whose response has been put on the screen
ShownSubmissions ==
  {c \in 1 .. Len(calls) :
     /\ calls[c].channel = "create-entry"
     /\ calls[c].state = "resolved"
     /\ c \notin awaited}

\* the create_entry request written to the worker for invocation c
RequestOf(c) ==
  stdin[CHOOSE i \in 1 .. Len(stdin) : stdin[i].requestId = calls[c].requestId]

\* C26 (displayed mood matches submitted mood): whenever the insight view
\* is shown, the mood it displays and hands to the mood-trend check is the
\* mood_rating of the create-entry request whose response produced the
\* insight, mood clicks during the analysis included.
C26_DisplayedMood ==
  View = "insight" =>
    /\ ShownSubmissions # {}
    /\ LET c == CHOOSE x \in ShownSubmissions :
                   \A y \in ShownSubmissions : y <= x
       IN  mood = RequestOf(c).data.mood_rating

\* C27 (analyzing state always ends): a create-entry invocation is made
\* with isAnalyzing set, and whenever isAnalyzing is true it is eventually
\* false again, whether the analysis succeeds, the worker reports an error,
\* the worker is not ready, the 30 s timer expires or the worker exits.
C27_AnalyzingEnds ==
  /\ [][(Invoked /\ LastCall.channel = "create-entry") => isAnalyzing']_vars
  /\ isAnalyzing ~> ~isAnalyzing

\* the worker exited during an analysis, the analysis timed out and the
\* form is usable again
C27_Witness ==
  /\ ~isAnalyzing
  /\ worker = "closed"
  /\ Len(calls) >= 1
  /\ calls[1].channel = "create-entry"
  /\ TimedOut(1)
  /\ 1 \notin awaited

\* this step is the continuation of handleSubmit for the failed analysis c
AnalysisFailed(c) ==
  /\ c \in awaited
  /\ c \notin awaited'
  /\ calls[c].channel = "create-entry"
  /\ calls[c].state = "rejected"

\* C28 (a failed analysis keeps the draft): the step that handles a failed
\* create-entry leaves content, mood, insight, similar and showTimeline as
\* they were, clears isAnalyzing, and so leaves the view that was shown:
\* a user on the form stays on the form with the text that was submitted.
C28_KeepsDraft ==
  [][\A c \in awaited :
       AnalysisFailed(c) =>
         /\ UNCHANGED <<content, mood, insight, similar, showTimeline>>
         /\ ~isAnalyzing'
         /\ View' = View
         /\ View = "writing" => (View' = "writing" /\ content' # <<>>)
         /\ calls[c].value # "Python subprocess not ready" =>
              RequestOf(c).data.content = Trim(content')]_vars

\* an analysis failed by its timeout and the form still holds the draft
C28_Witness ==
  /\ alert = "failed"
  /\ View = "writing"
  /\ content = Draft
  /\ ~isAnalyzing
  /\ \E c \in 1 .. Len(calls) :
       calls[c].channel = "create-entry" /\ TimedOut(c) /\ c \notin awaited

\* C29 (back to writing): from the timeline view, "Back to writing" always
\* leads to the writing view, in every state from which the timeline can
\* be reached.
C29_BackToWriting ==
  [][BackToWriting => View' = "writing"]_vars

\* C30 (timeline loading): showTimeline becomes true only in the step that
\* handles a resolved get-entries invocation, whose request asked for 20
\* entries, and that step puts exactly the entries of its response on the
\* screen (none when the response has no entries); the step that handles
\* a failed get-entries leaves the view and the loaded entries unchanged.
C30_TimelineLoading ==
  [][/\ (showTimeline' /\ ~showTimeline) =>
          \E c \in awaited :
            /\ c \notin awaited'
            /\ calls[c].channel = "get-entries"
            /\ calls[c].state = "resolved"
            /\ RequestOf(c).command = "get_entries"
            /\ RequestOf(c).data = [limit |-> 20]
     /\ \A c \in awaited, result \in EntriesResults :
          loadTimelineResolved(c, result) =>
            /\ View' = "timeline"
            /\ entries' = IF "entries" \in DOMAIN result
                            THEN result.entries ELSE <<>>
     /\ \A c \in awaited :
          (/\ c \notin awaited'
           /\ calls[c].channel = "get-entries"
           /\ calls[c].state = "rejected") =>
            /\ UNCHANGED <<entries, showTimeline>>
            /\ View' = View]_vars

\* two loads were answered and the timeline shows the empty list of the
\* second response
C30_Witness ==
  /\ View = "timeline"
  /\ entries = <<>>
  /\ Len(calls) = 2
  /\ calls[1].channel = "get-entries"
  /\ calls[2].channel = "get-entries"
  /\ calls[1].state = "resolved"
  /\ calls[2].state = "resolved"
  /\ awaited = {}

====
